---- MODULE Spec2Model ----
(***************************************************************************)
(* Model of tremolo_converter.py: the conversion of tremolo-picked beats   *)
(* of a parsed Guitar Pro song into individually timed beats.              *)
(*                                                                         *)
(* A beat is a record [id, value, isDotted, isDoubleDotted, tp, notes]:    *)
(* id stands for the identity of the Python object (0 for an object made   *)
(* by create_individual_notes), value/isDotted/isDoubleDotted are the      *)
(* fields of beat.duration, tp is beat.effect.tremoloPicking and notes the *)
(* list beat.notes.  A note is [value, string, type, velocity, tp] with    *)
(* tp = note.effect.tremoloPicking.  An optional object is a sequence:     *)
(* <<>> is None (or an attribute hasattr() does not find), <<v>> is a      *)
(* tremolo-picking object whose duration.value is v.                       *)
(* A Fraction is a pair <<n, d>> in lowest terms with d > 0.               *)
(* Python's 0-based list indices are 1-based here.                         *)
(***************************************************************************)
EXTENDS Integers, Sequences, FiniteSets, TLC

VARIABLES
    \* create_individual_notes called on its own
    original_beat, tremolo_speed_object, new_beats, sub_called,
    \* convert_tremolo_in_measure / validate_measure_timing called on a measure
    measure, orig_measure, pre_measure, ops, ret, calls,
    \* convert_tremolo_in_song
    song, track_idx, measure_idx, pc, converted_count, measure_conversions, counts

sub_vars == <<original_beat, tremolo_speed_object, new_beats, sub_called>>
measure_vars == <<measure, orig_measure, pre_measure, ops, ret, calls>>
song_vars == <<song, track_idx, measure_idx, pc, converted_count, measure_conversions, counts>>
vars == <<sub_vars, measure_vars, song_vars>>

(***************************** bounds **************************************)
MaxNotes == 2
MaxBeats == 3
MaxVoices == 2
MaxMeasures == 2
MaxTracks == 2

(************************* fractions.Fraction ******************************)
Abs(x) == IF x < 0 THEN -x ELSE x

RECURSIVE Gcd(_, _)
Gcd(a, b) == IF b = 0 THEN a ELSE Gcd(b, a % b)

\* Fraction(n, d), d # 0: lowest terms, positive denominator
Fraction(n, d) ==
    LET g == Gcd(Abs(n), Abs(d))
        s == IF d < 0 THEN -1 ELSE 1
    IN  <<(s * n) \div g, (s * d) \div g>>

FracZero == <<0, 1>>
FracOne == <<1, 1>>
FracAdd(a, b) == Fraction(a[1] * b[2] + b[1] * a[2], a[2] * b[2])
FracSub(a, b) == Fraction(a[1] * b[2] - b[1] * a[2], a[2] * b[2])
FracMul(a, b) == Fraction(a[1] * b[1], a[2] * b[2])
FracLE(a, b) == a[1] * b[2] <= b[1] * a[2]
FracGE(a, b) == FracLE(b, a)
FracGT(a, b) == ~FracLE(a, b)
FracLT(a, b) == ~FracLE(b, a)

(**************************** sequences ************************************)
Reverse(s) == [i \in 1..Len(s) |-> s[Len(s) + 1 - i]]

\* list.pop(i): the list without its element at index i
ListPop(s, i) == SubSeq(s, 1, i - 1) \o SubSeq(s, i + 1, Len(s))

\* list.insert(i, x): x before index i, or at the end when i is past it
ListInsert(s, i, x) ==
    IF i > Len(s) THEN Append(s, x)
    ELSE SubSeq(s, 1, i - 1) \o <<x>> \o SubSeq(s, i, Len(s))

\* all sequences over S of length <= n
SeqsUpTo(S, n) == UNION {[1..l -> S] : l \in 0..n}

RECURSIVE SumTo(_, _)
SumTo(c, k) == IF k = 0 THEN 0 ELSE c[k] + SumTo(c, k - 1)

\* flat cut into Len(c) consecutive lists of lengths c[1], c[2], ...
Split(flat, c) ==
    [v \in 1..Len(c) |-> SubSeq(flat, SumTo(c, v - 1) + 1, SumTo(c, v))]

\* nv lists over S (the voices of a measure, the tracks of a song) holding at most
\* budget elements together
NestedLists(S, nv, budget) ==
    UNION {UNION {{Split(flat, c) : flat \in [1..n -> S]} :
                     c \in {l \in [1..nv -> 0..n] : SumTo(l, nv) = n}} :
              n \in 0..budget}

(*********************** tremolo detection *********************************)
has_tremolo_picking(beat) ==
    \/ beat.tp # <<>>
    \/ \E i \in 1..Len(beat.notes) : beat.notes[i].tp # <<>>

remove_tremolo_effect_BeatOnly(beat) == [beat EXCEPT !.tp = <<>>]

remove_tremolo_effect(beat) ==
    [beat EXCEPT !.tp = <<>>,
                 !.notes = [i \in 1..Len(beat.notes) |-> [beat.notes[i] EXCEPT !.tp = <<>>]]]

(*********************** duration arithmetic *******************************)
duration_to_fraction(duration_value, is_dotted, is_double_dotted) ==
    LET base_fraction == Fraction(1, duration_value)
    IN  IF is_double_dotted THEN FracMul(base_fraction, Fraction(7, 4))
        ELSE IF is_dotted THEN FracMul(base_fraction, Fraction(3, 2))
        ELSE base_fraction

get_beat_duration_fraction(beat) ==
    duration_to_fraction(beat.value, beat.isDotted, beat.isDoubleDotted)

RECURSIVE calculate_beat_positions_from(_, _, _)
calculate_beat_positions_from(beats, k, current_pos) ==
    IF k > Len(beats) THEN <<>>
    ELSE <<current_pos>> \o
         calculate_beat_positions_from(
             beats, k + 1, FracAdd(current_pos, get_beat_duration_fraction(beats[k])))

calculate_beat_positions(beats) == calculate_beat_positions_from(beats, 1, FracZero)

(*********************** create_individual_notes ***************************)
\* lines 94-107: the subdivision the tremolo speed asks for
resolve_target_FallbackEighth(speed) ==
    IF speed # <<>> /\ speed[1] \in {8, 16, 32} THEN speed[1] ELSE 8

resolve_target(speed) ==
    IF speed # <<>>
    THEN LET speed_value == speed[1]
         IN  IF speed_value = 8 THEN 8
             ELSE IF speed_value = 16 THEN 16
             ELSE IF speed_value = 32 THEN 32
             ELSE 16
    ELSE 16

\* lines 129-134 and 153-158: a new note object copying four fields
clone_note_DefaultVelocity(original_note) ==
    [value |-> original_note.value, string |-> original_note.string,
     type |-> original_note.type, velocity |-> 95, tp |-> <<>>]

clone_note(original_note) ==
    [value |-> original_note.value, string |-> original_note.string,
     type |-> original_note.type, velocity |-> original_note.velocity, tp |-> <<>>]

\* lines 121-128 and 145-151: a new beat object of the target duration
new_beat_of(target_duration, notes) ==
    [id |-> 0, value |-> target_duration, isDotted |-> FALSE, isDoubleDotted |-> FALSE,
     tp |-> <<>>, notes |-> notes]

\* line 119: the loop condition
subdivision_fits_Strict(remaining_duration, target_duration_fraction) ==
    FracGT(remaining_duration, target_duration_fraction)

subdivision_fits_RoundUp(remaining_duration, target_duration_fraction) ==
    FracGT(remaining_duration, FracZero)

subdivision_fits(remaining_duration, target_duration_fraction) ==
    FracGE(remaining_duration, target_duration_fraction)

RECURSIVE notes_per_subdivision(_, _, _, _)
\* lines 116-137: one stream of single-note beats per original note
notes_per_subdivision(streams, remaining_duration, original_notes, target_duration) ==
    LET target_duration_fraction == duration_to_fraction(target_duration, FALSE, FALSE)
    IN  IF subdivision_fits(remaining_duration, target_duration_fraction)
        THEN notes_per_subdivision(
                 [i \in 1..Len(original_notes) |->
                     Append(streams[i],
                            new_beat_of(target_duration, <<clone_note(original_notes[i])>>))],
                 FracSub(remaining_duration, target_duration_fraction),
                 original_notes, target_duration)
        ELSE streams

create_individual_notes(beat, speed) ==
    LET original_duration_fraction == get_beat_duration_fraction(beat)
        target_duration == resolve_target(speed)
        num_original_notes == Len(beat.notes)
    IN  IF num_original_notes > 0
        THEN LET streams == notes_per_subdivision(
                                [i \in 1..num_original_notes |-> <<>>],
                                original_duration_fraction, beat.notes, target_duration)
                 num_subdivisions == Len(streams[1])
             IN  [k \in 1..num_subdivisions |->
                     new_beat_of(target_duration,
                                 [j \in 1..num_original_notes |-> clone_note(beat.notes[j])])]
        ELSE <<>>

(****************** inputs of create_individual_notes **********************)
DurationValues == {1, 2, 4, 8, 16, 32, 64}
SpeedValues == {4, 5, 8, 16, 32, 64}
Speeds == {<<>>} \cup {<<v>> : v \in SpeedValues}

Note(value, string, type, velocity, tp) ==
    [value |-> value, string |-> string, type |-> type, velocity |-> velocity, tp |-> tp]

Beat(value, dotted, doubleDotted, tp, notes) ==
    [id |-> 1, value |-> value, isDotted |-> dotted, isDoubleDotted |-> doubleDotted,
     tp |-> tp, notes |-> notes]

SubNotes ==
    {Note(5, 1, "normal", 95, <<>>), Note(7, 2, "tie", 63, <<16>>), Note(0, 3, "dead", 127, <<>>)}

SubBeats ==
    {Beat(v, d, dd, <<>>, ns) :
        v \in DurationValues, d \in BOOLEAN, dd \in BOOLEAN, ns \in SeqsUpTo(SubNotes, MaxNotes)}

(*********************** time signatures ***********************************)
\* An attribute of the time signature: missing, None, a non-numeric string or a number.
Attr(kind, val) == [kind |-> kind, val |-> val]
Header(has, numerator, denominator) ==
    [has |-> has, numerator |-> numerator, denominator |-> denominator]
NoHeader == Header("no_header", Attr("missing", 0), Attr("missing", 0))
TimeSig(n, d) == Header("present", Attr("int", n), Attr("int", d))

\* int(ts.<attribute>): the value, or the exception the read or the conversion raises
int_of(attr) ==
    IF attr.kind = "missing" THEN [exc |-> "AttributeError", val |-> 0]
    ELSE IF attr.kind = "none" THEN [exc |-> "TypeError", val |-> 0]
    ELSE IF attr.kind = "str" THEN [exc |-> "ValueError", val |-> 0]
    ELSE [exc |-> "none", val |-> attr.val]

\* lines 72-74 (and 77-79): numerator, then denominator, then Fraction(n, d)
read_time_signature(ts) ==
    LET numerator == int_of(ts.numerator)
        denominator == int_of(ts.denominator)
    IN  IF numerator.exc # "none" THEN [exc |-> numerator.exc, value |-> FracOne]
        ELSE IF denominator.exc # "none" THEN [exc |-> denominator.exc, value |-> FracOne]
        ELSE IF denominator.val = 0 THEN [exc |-> "ZeroDivisionError", value |-> FracOne]
        ELSE [exc |-> "none", value |-> Fraction(numerator.val, denominator.val)]

\* exc = "none": the returned capacity; otherwise the exception that leaves the function
get_time_signature_duration(m) ==
    IF m.header.has = "present"
    THEN LET first == read_time_signature(m.header)
         IN  IF first.exc = "none" THEN first
             ELSE IF first.exc = "AttributeError"
             THEN LET second == read_time_signature(m.header)
                  IN  IF second.exc = "none" THEN second
                      ELSE [exc |-> "none", value |-> FracOne]
             ELSE IF first.exc = "TypeError" THEN [exc |-> "none", value |-> FracOne]
             ELSE first
    ELSE [exc |-> "none", value |-> FracOne]

(*********************** convert_tremolo_in_measure ************************)
Min(S) == CHOOSE x \in S : \A y \in S : x <= y

\* lines 177-183: the speed object handed to create_individual_notes
detected_speed(beat) ==
    LET marked == {i \in 1..Len(beat.notes) : beat.notes[i].tp # <<>>}
    IN  IF marked # {} THEN beat.notes[Min(marked)].tp ELSE beat.tp

\* lines 172-187: (beat_idx, beat, speed) of every tremolo beat, in index order
tremolo_beats(beats) ==
    LET idxs == SelectSeq([i \in 1..Len(beats) |-> i], LAMBDA i : has_tremolo_picking(beats[i]))
    IN  [k \in 1..Len(idxs) |->
            [beat_idx |-> idxs[k], beat |-> beats[idxs[k]],
             speed |-> detected_speed(beats[idxs[k]])]]

\* line 192: the order in which the detected beats are rewritten
processing_order_Forward(detected) == detected

processing_order(detected) == Reverse(detected)

RECURSIVE insert_new_beats(_, _, _, _)
\* lines 201-202: voice.beats.insert(beat_idx + i, new_beat) for each new beat
insert_new_beats(beats, beat_idx, created, i) ==
    IF i > Len(created) THEN beats
    ELSE insert_new_beats(ListInsert(beats, beat_idx + (i - 1), created[i]),
                          beat_idx, created, i + 1)

\* line 197: remove_tremolo_effect on the beat object, wherever the list holds it
strip_in_place(beats, beat) ==
    LET at == CHOOSE k \in 1..Len(beats) : beats[k].id = beat.id
    IN  [beats EXCEPT ![at] = remove_tremolo_effect(beats[at])]

\* lines 196-207: the beat t of the detected list rewritten with the beats created
\* for it; acc = [beats, count, calls]
apply_new_beats(acc, t, created) ==
    [beats |-> IF Len(created) <= 1
               THEN strip_in_place(acc.beats, t.beat)
               ELSE insert_new_beats(ListPop(acc.beats, t.beat_idx), t.beat_idx, created, 1),
     count |-> acc.count + 1,
     calls |-> Append(acc.calls, [id |-> t.beat.id, speed |-> t.speed])]

\* lines 193-207
rewrite_tremolo_beat(acc, t) ==
    apply_new_beats(acc, t, create_individual_notes(t.beat, t.speed))

RECURSIVE rewrite_tremolo_beats(_, _, _)
\* lines 192-207
rewrite_tremolo_beats(acc, todo, k) ==
    IF k > Len(todo) THEN acc
    ELSE rewrite_tremolo_beats(rewrite_tremolo_beat(acc, todo[k]), todo, k + 1)

\* lines 172-207 for one voice: its beats, the beats converted and the calls made
\* to create_individual_notes as (id of the beat, speed object)
convert_voice(beats) ==
    rewrite_tremolo_beats([beats |-> beats, count |-> 0, calls |-> <<>>],
                          processing_order(tremolo_beats(beats)), 1)

\* acc = [voices, count, calls] with the result r of one more voice
add_voice(acc, r) ==
    [voices |-> Append(acc.voices, r.beats),
     count |-> acc.count + r.count,
     calls |-> acc.calls \o r.calls]

RECURSIVE convert_voices(_, _, _)
\* lines 170-208
convert_voices(acc, voices, v) ==
    IF v > Len(voices) THEN acc
    ELSE convert_voices(add_voice(acc, convert_voice(voices[v])), voices, v + 1)

converted_measure(m, r) ==
    [measure |-> [m EXCEPT !.voices = r.voices], count |-> r.count, calls |-> r.calls]

\* the mutated measure, the returned converted_count, and the calls made
convert_tremolo_in_measure(m) ==
    converted_measure(
        m, convert_voices([voices |-> <<>>, count |-> 0, calls |-> <<>>], m.voices, 1))

(*********************** validate_measure_timing ***************************)
RECURSIVE total_duration_from(_, _, _)
\* lines 215-217; each running total is a Fraction (denominator >= 1) computed
\* before the next beat is added
total_duration_from(beats, k, total) ==
    IF k > Len(beats) THEN total
    ELSE LET next_total == FracAdd(total, get_beat_duration_fraction(beats[k]))
         IN  IF next_total[2] >= 1
             THEN total_duration_from(beats, k + 1, next_total)
             ELSE next_total

total_duration(beats) == total_duration_from(beats, 1, FracZero)

RECURSIVE beats_to_keep_NoBreak(_, _, _, _)
beats_to_keep_NoBreak(beats, k, current_duration, time_sig_duration) ==
    IF k > Len(beats) THEN <<>>
    ELSE LET beat_duration == get_beat_duration_fraction(beats[k])
         IN  IF FracLE(FracAdd(current_duration, beat_duration), time_sig_duration)
             THEN <<beats[k]>> \o
                  beats_to_keep_NoBreak(beats, k + 1, FracAdd(current_duration, beat_duration),
                                        time_sig_duration)
             ELSE beats_to_keep_NoBreak(beats, k + 1, current_duration, time_sig_duration)

RECURSIVE beats_to_keep(_, _, _, _)
\* lines 220-228
beats_to_keep(beats, k, current_duration, time_sig_duration) ==
    IF k > Len(beats) THEN <<>>
    ELSE LET beat_duration == get_beat_duration_fraction(beats[k])
         IN  IF FracLE(FracAdd(current_duration, beat_duration), time_sig_duration)
             THEN <<beats[k]>> \o
                  beats_to_keep(beats, k + 1, FracAdd(current_duration, beat_duration),
                                time_sig_duration)
             ELSE <<>>

\* lines 215-231 for one voice
validate_voice(beats, time_sig_duration) ==
    IF FracGT(total_duration(beats), time_sig_duration)
    THEN LET kept == beats_to_keep(beats, 1, FracZero, time_sig_duration)
         IN  IF Len(kept) < Len(beats) THEN kept ELSE beats
    ELSE beats

\* exc # "none": the exception of line 213, the measure untouched
validate_measure_timing(m) ==
    LET ts == get_time_signature_duration(m)
    IN  IF ts.exc # "none" THEN [exc |-> ts.exc, measure |-> m]
        ELSE [exc |-> "none",
              measure |-> [m EXCEPT !.voices =
                              [v \in 1..Len(m.voices) |-> validate_voice(m.voices[v], ts.value)]]]

(*********************** idle values of unused state ***********************)
IdleBeat == Beat(4, FALSE, FALSE, <<>>, <<>>)
IdleMeasure == [header |-> NoHeader, voices |-> <<>>]

SubIdle ==
    /\ original_beat = IdleBeat
    /\ tremolo_speed_object = <<>>
    /\ new_beats = <<>>
    /\ sub_called = FALSE

MeasureIdle ==
    /\ measure = IdleMeasure
    /\ orig_measure = IdleMeasure
    /\ pre_measure = IdleMeasure
    /\ ops = <<>>
    /\ ret = 0
    /\ calls = <<>>

SongIdle ==
    /\ song = <<>>
    /\ track_idx = 0
    /\ measure_idx = 0
    /\ pc = "idle"
    /\ converted_count = 0
    /\ measure_conversions = 0
    /\ counts = <<>>

(***************************************************************************)
(* SpecSub: create_individual_notes applied to every beat and speed        *)
(***************************************************************************)
InitSub ==
    /\ original_beat \in SubBeats
    /\ tremolo_speed_object \in Speeds
    /\ new_beats = <<>>
    /\ sub_called = FALSE
    /\ MeasureIdle
    /\ SongIdle

CallCreateIndividualNotes ==
    /\ ~sub_called
    /\ new_beats' = create_individual_notes(original_beat, tremolo_speed_object)
    /\ sub_called' = TRUE
    /\ UNCHANGED <<original_beat, tremolo_speed_object, measure_vars, song_vars>>

NextSub == CallCreateIndividualNotes

SpecSub == InitSub /\ [][NextSub]_vars

(**************** properties of create_individual_notes ********************)
\* floor(f / (1/t)) for a fraction f and a denominator t
SlotCount(f, t) == (f[1] * t) \div f[2]
IsWholeMultiple(f, t) == (f[1] * t) % f[2] = 0
OriginalFraction == get_beat_duration_fraction(original_beat)
NumOriginalNotes == Len(original_beat.notes)
SameNote(a, b) ==
    /\ a.value = b.value
    /\ a.string = b.string
    /\ a.type = b.type
    /\ a.velocity = b.velocity

\* C2 as stated: the replacement beats of a beat with at least one note span
\* exactly the duration of the original beat.
C2_SameTotalDuration ==
    (sub_called /\ NumOriginalNotes >= 1)
        => total_duration(new_beats) = OriginalFraction

\* C2 amended: the replacement beats of a beat with at least one note span
\* floor(original / (1/t)) target durations: exactly the original duration when
\* it is a whole multiple of 1/t, and otherwise less than it by a remainder
\* smaller than 1/t.
C2_TotalDurationFloored ==
    (sub_called /\ NumOriginalNotes >= 1)
        => LET t == resolve_target(tremolo_speed_object)
               total == total_duration(new_beats)
           IN  /\ FracLE(total, OriginalFraction)
               /\ FracLT(FracSub(OriginalFraction, total), Fraction(1, t))
               /\ IsWholeMultiple(OriginalFraction, t) <=> (total = OriginalFraction)

C2_Witness ==
    /\ sub_called
    /\ NumOriginalNotes >= 1
    /\ Len(new_beats) >= 2
    /\ ~IsWholeMultiple(OriginalFraction, resolve_target(tremolo_speed_object))

\* C3: a beat with n >= 1 notes gives exactly floor(original / (1/t)) beats, each
\* of duration t, undotted, without tremolo marker, holding copies of the n
\* original notes in order; a beat without notes gives no beat at all.
C3_SlotsAndChordCopies ==
    sub_called =>
        IF NumOriginalNotes = 0 THEN new_beats = <<>>
        ELSE LET t == resolve_target(tremolo_speed_object)
             IN  /\ Len(new_beats) = SlotCount(OriginalFraction, t)
                 /\ \A k \in 1..Len(new_beats) :
                       /\ new_beats[k].value = t
                       /\ ~new_beats[k].isDotted
                       /\ ~new_beats[k].isDoubleDotted
                       /\ ~has_tremolo_picking(new_beats[k])
                       /\ Len(new_beats[k].notes) = NumOriginalNotes
                       /\ \A j \in 1..NumOriginalNotes :
                             SameNote(new_beats[k].notes[j], original_beat.notes[j])

C3_Witness ==
    /\ sub_called
    /\ original_beat.value = 4
    /\ ~original_beat.isDotted /\ ~original_beat.isDoubleDotted
    /\ tremolo_speed_object = <<16>>
    /\ NumOriginalNotes = 2
    /\ original_beat.notes[1] # original_beat.notes[2]
    /\ \E j \in 1..2 : original_beat.notes[j].velocity # 95
    /\ Len(new_beats) = 4

\* C7: a speed of 8, 16 or 32 is the target; any other speed, or none, gives
\* what an explicit speed of 16 gives.
C7_TargetResolution ==
    sub_called =>
        IF tremolo_speed_object # <<>> /\ tremolo_speed_object[1] \in {8, 16, 32}
        THEN /\ \A k \in 1..Len(new_beats) : new_beats[k].value = tremolo_speed_object[1]
             /\ NumOriginalNotes >= 1 =>
                   Len(new_beats) = SlotCount(OriginalFraction, tremolo_speed_object[1])
        ELSE new_beats = create_individual_notes(original_beat, <<16>>)

C7_Witness ==
    /\ sub_called
    /\ tremolo_speed_object = <<5>>
    /\ Len(new_beats) >= 2
    /\ new_beats[1].value = 16

(***************************************************************************)
(* SpecMeasure: convert_tremolo_in_measure and validate_measure_timing     *)
(* applied to a measure                                                    *)
(***************************************************************************)
PlainQuarter == Beat(4, FALSE, FALSE, <<>>, <<Note(5, 1, "normal", 95, <<>>)>>)
\* a quarter note with a note-level marker: four sixteenths
TremoloQuarter == Beat(4, FALSE, FALSE, <<>>, <<Note(7, 2, "normal", 63, <<16>>)>>)
\* a double-dotted quarter chord (7/16), beat-level marker 32, note-level marker 8
TremoloChord ==
    Beat(4, FALSE, TRUE, <<32>>,
         <<Note(5, 1, "normal", 95, <<>>), Note(9, 3, "tie", 127, <<8>>)>>)
\* a rest carrying a beat-level marker
TremoloRest == Beat(8, FALSE, FALSE, <<16>>, <<>>)
\* a dotted sixteenth (3/32) with a marker of unknown speed: one sixteenth fits
TremoloSixteenth == Beat(16, TRUE, FALSE, <<>>, <<Note(3, 4, "dead", 95, <<5>>)>>)

MeasureBeats == {PlainQuarter, TremoloQuarter, TremoloChord, TremoloRest, TremoloSixteenth}

\* every beat object is its own: the id is its place in the measure
WithIds(voices) ==
    [v \in 1..Len(voices) |->
        [k \in 1..Len(voices[v]) |-> [voices[v][k] EXCEPT !.id = 10 * v + k]]]

MeasureTimeSigs ==
    {TimeSig(1, 4), TimeSig(2, 4),
     Header("present", Attr("missing", 0), Attr("int", 4)),
     Header("present", Attr("str", 0), Attr("int", 4))}

Measures ==
    {[header |-> h, voices |-> WithIds(vs)] :
        h \in MeasureTimeSigs,
        vs \in UNION {NestedLists(MeasureBeats, nv, MaxBeats) : nv \in 1..MaxVoices}}

InitMeasure ==
    /\ measure \in Measures
    /\ orig_measure = measure
    /\ pre_measure = measure
    /\ ops = <<>>
    /\ ret = 0
    /\ calls = <<>>
    /\ SubIdle
    /\ SongIdle

\* the measure after a call: the result r of convert_tremolo_in_measure(measure)
Converted(r, op) ==
    /\ measure' = r.measure
    /\ ret' = r.count
    /\ calls' = r.calls
    /\ pre_measure' = measure
    /\ ops' = Append(ops, op)
    /\ UNCHANGED <<orig_measure, sub_vars, song_vars>>

\* the measure after a call: the result r of validate_measure_timing(measure)
Validated(r) ==
    /\ measure' = r.measure
    /\ ops' = Append(ops, IF r.exc = "none" THEN "validate" ELSE "raised")
    /\ pre_measure' = measure
    /\ UNCHANGED <<orig_measure, ret, calls, sub_vars, song_vars>>

\* convert_tremolo_in_measure(measure)
CallConvert ==
    /\ ops = <<>>
    /\ Converted(convert_tremolo_in_measure(measure), "convert")

\* a second convert_tremolo_in_measure(measure) on the converted measure
CallConvertAgain ==
    /\ ops = <<"convert">>
    /\ Converted(convert_tremolo_in_measure(measure), "convert")

\* validate_measure_timing(measure), on the measure as given or as converted
CallValidate ==
    /\ ops \in {<<>>, <<"convert">>}
    /\ Validated(validate_measure_timing(measure))

NextMeasure == CallConvert \/ CallConvertAgain \/ CallValidate

SpecMeasure == InitMeasure /\ [][NextMeasure]_vars

(******** properties of convert_tremolo_in_measure / validate **************)
Voices(m) == 1..Len(m.voices)
AllBeats(m) == UNION {{m.voices[v][k] : k \in 1..Len(m.voices[v])} : v \in Voices(m)}
BeatWithId(m, id) == CHOOSE b \in AllBeats(m) : b.id = id
FirstMarkedNote(beat) == Min({i \in 1..Len(beat.notes) : beat.notes[i].tp # <<>>})
JustConverted == ops = <<"convert">>
JustValidated == ops # <<>> /\ ops[Len(ops)] = "validate"

\* C4 as stated: the speed handed to create_individual_notes is the beat-level
\* marker when the beat has one, and the first note-level marker only when it
\* has none.
C4_BeatLevelMarkerPreferred ==
    JustConverted =>
        \A c \in 1..Len(calls) :
            LET beat == BeatWithId(orig_measure, calls[c].id)
            IN  calls[c].speed =
                    IF beat.tp # <<>> THEN beat.tp ELSE beat.notes[FirstMarkedNote(beat)].tp

\* duration and notes of a beat, tremolo markers left aside
Content(beat) ==
    [id |-> beat.id, value |-> beat.value, isDotted |-> beat.isDotted,
     isDoubleDotted |-> beat.isDoubleDotted,
     notes |-> [j \in 1..Len(beat.notes) |->
                   [value |-> beat.notes[j].value, string |-> beat.notes[j].string,
                    type |-> beat.notes[j].type, velocity |-> beat.notes[j].velocity]]]
Contents(beats) == [k \in 1..Len(beats) |-> Content(beats[k])]

Subdivision(beat) == create_individual_notes(beat, detected_speed(beat))
Splits(beat) == has_tremolo_picking(beat) /\ Len(Subdivision(beat)) >= 2

RECURSIVE Reference(_, _)
\* the original beats from index k on, each splitting beat replaced by its subdivision
Reference(beats, k) ==
    IF k > Len(beats) THEN <<>>
    ELSE (IF Splits(beats[k]) THEN Subdivision(beats[k]) ELSE <<beats[k]>>)
         \o Reference(beats, k + 1)

\* C5: after the conversion every voice is its original beat sequence with each
\* splitting tremolo beat replaced in place by its subdivision, all other beats
\* the same objects with the same duration and notes, in the original order.
C5_SpliceEqualsReference ==
    JustConverted =>
        \A v \in Voices(measure) :
            Contents(measure.voices[v]) = Contents(Reference(orig_measure.voices[v], 1))

C5_Witness ==
    /\ JustConverted
    /\ \E v \in Voices(orig_measure) :
          LET beats == orig_measure.voices[v]
          IN  /\ Len(beats) = 3
              /\ Splits(beats[1])
              /\ ~has_tremolo_picking(beats[2])
              /\ Splits(beats[3])
              /\ Len(measure.voices[v]) = Len(Subdivision(beats[1])) + 1 + Len(Subdivision(beats[3]))

Capacity(m) == get_time_signature_duration(m).value
CumulativeDuration(beats, j) == total_duration(SubSeq(beats, 1, j))
LongestFittingPrefix(beats, capacity) ==
    LET fits == {j \in 0..Len(beats) : FracLE(CumulativeDuration(beats, j), capacity)}
    IN  SubSeq(beats, 1, CHOOSE j \in fits : \A i \in fits : i <= j)

\* C6: validate_measure_timing turns a voice longer than the capacity into its
\* longest prefix that fits the capacity, and leaves any other voice as it is.
C6_TruncatesToLongestPrefix ==
    JustValidated =>
        /\ Len(measure.voices) = Len(pre_measure.voices)
        /\ \A v \in Voices(pre_measure) :
              LET before == pre_measure.voices[v]
              IN  measure.voices[v] =
                      IF FracGT(total_duration(before), Capacity(pre_measure))
                      THEN LongestFittingPrefix(before, Capacity(pre_measure))
                      ELSE before

C6_Witness ==
    /\ JustValidated
    /\ \E v \in Voices(pre_measure) :
          /\ Len(measure.voices[v]) >= 1
          /\ Len(measure.voices[v]) < Len(pre_measure.voices[v])
    /\ \E v \in Voices(pre_measure) :
          /\ pre_measure.voices[v] # <<>>
          /\ measure.voices[v] = pre_measure.voices[v]

\* C9: after convert_tremolo_in_measure no beat of the measure carries a tremolo
\* marker, on the beat or on a note; a second call returns 0 and changes nothing.
C9_NoTremoloLeft ==
    /\ (ops # <<>> /\ ops[1] = "convert") =>
          \A b \in AllBeats(measure) : ~has_tremolo_picking(b)
    /\ ops = <<"convert", "convert">> => (ret = 0 /\ measure = pre_measure)

C9_Witness ==
    /\ ops = <<"convert", "convert">>
    /\ \E b \in AllBeats(orig_measure) : Splits(b)
    /\ \E b \in AllBeats(orig_measure) :
          has_tremolo_picking(b) /\ b.notes # <<>> /\ ~Splits(b)
    /\ \E b \in AllBeats(orig_measure) : has_tremolo_picking(b) /\ b.notes = <<>>

FitsCapacity(m) ==
    \A v \in Voices(m) : FracLE(total_duration(m.voices[v]), Capacity(m))

\* C10: the conversion never lengthens a voice; when every voice fitted the
\* capacity before the conversion, the validation after it drops no beat.
C10_NeverLonger ==
    /\ JustConverted =>
          \A v \in Voices(measure) :
              FracLE(total_duration(measure.voices[v]), total_duration(pre_measure.voices[v]))
    /\ (ops = <<"convert", "validate">> /\ FitsCapacity(orig_measure)) =>
          measure = pre_measure

C10_Witness ==
    /\ ops = <<"convert", "validate">>
    /\ FitsCapacity(orig_measure)
    /\ \E v \in Voices(orig_measure) :
          /\ Len(pre_measure.voices[v]) > Len(orig_measure.voices[v])
          /\ FracLT(total_duration(pre_measure.voices[v]), total_duration(orig_measure.voices[v]))
    /\ \E v \in Voices(orig_measure) :
          total_duration(orig_measure.voices[v]) = Capacity(orig_measure)

(***************************************************************************)
(* Spec: convert_tremolo_in_song                                           *)
(***************************************************************************)
\* line 242
needs_validation_MoreThanOne(conversions) == conversions > 1

needs_validation(conversions) == conversions > 0

SongTimeSigs ==
    {TimeSig(1, 4), NoHeader,
     Header("present", Attr("int", 4), Attr("none", 0)),
     TimeSig(4, 0)}

SongVoices ==
    {<<<<TremoloQuarter, PlainQuarter>>>>,
     <<<<PlainQuarter, PlainQuarter>>, <<TremoloChord, TremoloRest>>>>,
     <<<<PlainQuarter, PlainQuarter>>>>}

SongMeasures == {[header |-> h, voices |-> WithIds(vs)] : h \in SongTimeSigs, vs \in SongVoices}

\* a song is the list of its tracks, a track the list of its measures
Songs == UNION {NestedLists(SongMeasures, nt, MaxMeasures) : nt \in 1..MaxTracks}

Init ==
    /\ song \in Songs
    /\ track_idx = 1
    /\ measure_idx = 1
    /\ pc = "tracks"
    /\ converted_count = 0
    /\ measure_conversions = 0
    /\ counts = <<>>
    /\ SubIdle
    /\ MeasureIdle

\* line 237: the next track
EnterTrack ==
    /\ pc = "tracks"
    /\ track_idx <= Len(song)
    /\ measure_idx' = 1
    /\ pc' = "measures"
    /\ UNCHANGED <<song, track_idx, converted_count, measure_conversions, counts,
                   sub_vars, measure_vars>>

\* line 241: r is what convert_tremolo_in_measure(measure, track.name) made
MeasureConverted(r) ==
    /\ song' = [song EXCEPT ![track_idx][measure_idx] = r.measure]
    /\ measure_conversions' = r.count
    /\ counts' = Append(counts, [track |-> track_idx, measure |-> measure_idx,
                                 count |-> r.count])
    /\ pc' = "converted"
    /\ UNCHANGED <<track_idx, measure_idx, converted_count, sub_vars, measure_vars>>

\* lines 239-241: the next measure of the track is converted
ConvertMeasure ==
    /\ pc = "measures"
    /\ measure_idx <= Len(song[track_idx])
    /\ MeasureConverted(convert_tremolo_in_measure(song[track_idx][measure_idx]))

\* lines 243-244: r is what validate_measure_timing(measure) made, or the exception
MeasureValidated(r) ==
    /\ IF r.exc = "none"
       THEN /\ song' = [song EXCEPT ![track_idx][measure_idx] = r.measure]
            /\ converted_count' = converted_count + measure_conversions
            /\ measure_idx' = measure_idx + 1
            /\ pc' = "measures"
       ELSE /\ pc' = "raised"
            /\ UNCHANGED <<song, converted_count, measure_idx>>
    /\ UNCHANGED <<track_idx, measure_conversions, counts, sub_vars, measure_vars>>

\* lines 242-244: a measure with conversions is validated and counted
ValidateMeasure ==
    /\ pc = "converted"
    /\ needs_validation(measure_conversions)
    /\ MeasureValidated(validate_measure_timing(song[track_idx][measure_idx]))

\* line 242: a measure without conversions is left as it is
SkipValidation ==
    /\ pc = "converted"
    /\ ~needs_validation(measure_conversions)
    /\ measure_idx' = measure_idx + 1
    /\ pc' = "measures"
    /\ UNCHANGED <<song, track_idx, converted_count, measure_conversions, counts,
                   sub_vars, measure_vars>>

\* line 239: the track has no further measure
LeaveTrack ==
    /\ pc = "measures"
    /\ measure_idx > Len(song[track_idx])
    /\ track_idx' = track_idx + 1
    /\ pc' = "tracks"
    /\ UNCHANGED <<song, measure_idx, converted_count, measure_conversions, counts,
                   sub_vars, measure_vars>>

\* line 245: the song has no further track
Return ==
    /\ pc = "tracks"
    /\ track_idx > Len(song)
    /\ pc' = "done"
    /\ UNCHANGED <<song, track_idx, measure_idx, converted_count, measure_conversions,
                   counts, sub_vars, measure_vars>>

Next ==
    \/ EnterTrack
    \/ ConvertMeasure
    \/ ValidateMeasure
    \/ SkipValidation
    \/ LeaveTrack
    \/ Return

Spec == Init /\ [][Next]_vars

(**************** properties of convert_tremolo_in_song ********************)
Mutated == {c \in 1..Len(counts) : counts[c].count > 0}
MeasureOf(c) == song[counts[c].track][counts[c].measure]

\* the measure of entry c has passed lines 242-244
Processed(c) == c < Len(counts) \/ pc \in {"measures", "tracks", "done"}

\* C1: once convert_tremolo_in_song is done with a measure in which
\* convert_tremolo_in_measure converted something, every voice of that measure
\* fits the measure's capacity, and so does every such measure of the song when
\* the function returns.
C1_MutatedMeasuresFit ==
    \A c \in Mutated : Processed(c) => FitsCapacity(MeasureOf(c))

C1_Witness ==
    /\ pc = "done"
    /\ \E c \in Mutated :
          /\ MeasureOf(c).header = TimeSig(1, 4)
          /\ Len(MeasureOf(c).voices[1]) = 4
          /\ \A k \in 1..4 : MeasureOf(c).voices[1][k].value = 16
    /\ \E c \in Mutated :
          /\ Capacity(MeasureOf(c)) = FracOne
          /\ Len(MeasureOf(c).voices[1]) = 5

Unreadable(header) ==
    \/ header.has # "present"
    \/ header.numerator.kind # "int"
    \/ header.denominator.kind # "int"
    \/ header.denominator.val = 0

\* C8 as stated: a time signature that cannot be read gives capacity 1, the
\* measure is validated against it, and no exception leaves the conversion.
C8_UnreadableTimeSignatureRecovered ==
    /\ pc # "raised"
    /\ \A c \in Mutated :
          (Unreadable(MeasureOf(c).header) /\ Processed(c))
              => \A v \in Voices(MeasureOf(c)) :
                    FracLE(total_duration(MeasureOf(c).voices[v]), FracOne)
====
